---- MODULE Spec2Model ----
(***************************************************************************)
(* A model of fetch_stats.py, the hourly statistics fetcher of             *)
(* BLT-Hackathons: main's loop over the configured events, the lifecycle   *)
(* gate, process_hackathon (repository resolution, full / incremental      *)
(* fetch, aggregation), fetch_all_pages, fetch_pull_requests and           *)
(* make_request.                                                           *)
(*                                                                         *)
(* Time is counted in minutes.  A timestamp string is a record             *)
(* [fmt, t]: fmt says what datetime.fromisoformat makes of the string.     *)
(* An optional value (Python's None) is the empty sequence, a present      *)
(* value v the one-element sequence <<v>>.  A repository path is the       *)
(* sequence of its "/"-separated segments.                                 *)
(***************************************************************************)
EXTENDS Integers, Sequences, FiniteSets, TLC

VARIABLES
    \* ---- main(): the run loop ------------------------------------------
    config,      \* the configuration document ([present, hackathons])
    now,         \* the wall clock, in minutes
    files,       \* hackathon-data/<slug>.json, per slug
    pc,          \* "idle" | "loop" | "crashed" | "exit1"
    idx,         \* index of the event the loop handles next
    orgCache,    \* org_repos_cache of the current run
    calls,       \* upstream fetches issued in the current run, in order
    runs,        \* number of runs started
    summary,     \* stats.json: number of the run that wrote it last (0: never)
    last,        \* per slug: what the latest handling of the event did; lost
                 \* and priorLost are the repositories whose fetch failed in
                 \* it and in the handling that wrote its prior snapshot
    hist,        \* per slug: runs that processed it, runs that processed it
                 \* after its end, the run that wrote its file last
    runStart,    \* files as they were when the current run started
    faults,      \* failed upstream requests the environment may still produce
    \* ---- make_request ---------------------------------------------------
    rq,
    \* ---- fetch_all_pages / fetch_pull_requests --------------------------
    fp,
    \* ---- process_hackathon_stats ---------------------------------------
    ps,
    \* ---- fetch_issues ---------------------------------------------------
    fi

mainVars == <<config, now, files, pc, idx, orgCache, calls, runs, summary,
              last, hist, runStart, faults>>
vars == <<config, now, files, pc, idx, orgCache, calls, runs, summary,
          last, hist, runStart, faults, rq, fp, ps, fi>>

(***************************************************************************)
(* Bounds of the model.                                                    *)
(***************************************************************************)
MaxEvents == 2
MaxRuns == 2

(***************************************************************************)
(* Program constants.                                                      *)
(***************************************************************************)
SafetyMargin == 5      \* timedelta(minutes=5)
PerPage == 100         \* per_page = 100
RetryCount == 3        \* retry_count=3

None == <<>>
Some(v) == <<v>>
IsNone(o) == o = <<>>
Val(o) == o[1]

Range(s) == {s[i] : i \in 1..Len(s)}
NoDup(s) == \A i, j \in 1..Len(s) : s[i] = s[j] => i = j

\* number of elements of sequence s that satisfy P
Count(s, P(_)) == Cardinality({i \in 1..Len(s) : P(s[i])})

(***************************************************************************)
(* Text.  A login or a title is the sequence of its characters, so that    *)
(* str.lower(), the "in" test on substrings and str.endswith are computed  *)
(* as Python computes them.                                                *)
(***************************************************************************)
UpperCase == <<"A", "B", "C", "D", "E", "F", "G", "H", "I", "J", "K", "L", "M",
               "N", "O", "P", "Q", "R", "S", "T", "U", "V", "W", "X", "Y", "Z">>
LowerCase == <<"a", "b", "c", "d", "e", "f", "g", "h", "i", "j", "k", "l", "m",
               "n", "o", "p", "q", "r", "s", "t", "u", "v", "w", "x", "y", "z">>

LowerChar(ch) ==
    IF \E i \in DOMAIN UpperCase : UpperCase[i] = ch
    THEN LowerCase[CHOOSE i \in DOMAIN UpperCase : UpperCase[i] = ch]
    ELSE ch

\* s.lower()
Lower(s) == [i \in 1..Len(s) |-> LowerChar(s[i])]

\* sub in s
Contains(s, sub) ==
    \E i \in 0..(Len(s) - Len(sub)) : SubSeq(s, i + 1, i + Len(sub)) = sub

\* s.endswith(sub)
EndsWith(s, sub) ==
    Len(sub) <= Len(s) /\ SubSeq(s, Len(s) - Len(sub) + 1, Len(s)) = sub

BotTag == <<"[", "b", "o", "t", "]">>
BotSuffix == <<"b", "o", "t">>
CopilotWord == <<"c", "o", "p", "i", "l", "o", "t">>

Alice == <<"a", "l", "i", "c", "e">>
Bob == <<"b", "o", "b">>
Carol == <<"c", "a", "r", "o", "l">>
PlainTitle == <<"F", "i", "x">>

RECURSIVE Flatten(_)
Flatten(ss) == IF ss = <<>> THEN <<>> ELSE Head(ss) \o Flatten(Tail(ss))

(***************************************************************************)
(* Timestamp strings and datetime.fromisoformat(s.replace("Z", "+00:00")). *)
(*   fmt "utc"     a well-formed string with a Z or +00:00 offset          *)
(*   fmt "naive"   a well-formed string without an offset                  *)
(*   fmt "garbage" a string that is no ISO-8601 timestamp                  *)
(*   fmt "none"    the key is missing or null (Python None)                *)
(* The result is [err, aware, t]; err = "" when the parse succeeds.        *)
(***************************************************************************)
Utc(t) == [fmt |-> "utc", t |-> t]
Naive(t) == [fmt |-> "naive", t |-> t]
Garbage == [fmt |-> "garbage", t |-> 0]
Missing == [fmt |-> "none", t |-> 0]

FromIso(s) ==
    CASE s.fmt = "utc" -> [err |-> "", aware |-> TRUE, t |-> s.t]
      [] s.fmt = "naive" -> [err |-> "", aware |-> FALSE, t |-> s.t]
      [] s.fmt = "garbage" -> [err |-> "ValueError", aware |-> FALSE, t |-> 0]
      [] OTHER -> [err |-> "AttributeError", aware |-> FALSE, t |-> 0]

\* datetime.now(timezone.utc).isoformat(): always offset-aware
IsoNow(t) == Utc(t)

(***************************************************************************)
(* is_hackathon_active(start_time, end_time): now <= end_dt.  Comparing    *)
(* the aware now with a naive end_dt raises TypeError.  [err, val].        *)
(***************************************************************************)
IsHackathonActive(end_time, clock) ==
    LET end_dt == FromIso(end_time) IN
    IF end_dt.err # "" THEN [err |-> end_dt.err, val |-> FALSE]
    ELSE IF ~end_dt.aware THEN [err |-> "TypeError", val |-> FALSE]
    ELSE [err |-> "", val |-> clock <= end_dt.t]

(***************************************************************************)
(* The snapshot file of an event and load_existing_data(slug).             *)
(*   json "absent"    no file                                              *)
(*   json "invalid"   the file is not parseable as JSON                    *)
(*   json "falsy"     a JSON value Python finds false: null, [], {}, 0, "" *)
(*   json "nonobject" a JSON value that is true and no object: [1], 7, "x" *)
(*   json "object"    a non-empty JSON object; lastUpdated is its          *)
(*                    "lastUpdated" member (Missing when it has none)      *)
(* load_existing_data returns None for an absent or unparseable file and   *)
(* the parsed value otherwise.                                             *)
(***************************************************************************)
NoStats == [totalPRs |-> 0]
Absent == [json |-> "absent", lastUpdated |-> Missing, repositories |-> <<>>,
           stats |-> NoStats]
FileOf(kind, lu) == [json |-> kind, lastUpdated |-> lu, repositories |-> <<>>,
                     stats |-> NoStats]

Exists(f) == f.json # "absent"

LoadExistingData(f) ==
    IF Exists(f) /\ f.json # "invalid" THEN Some(f) ELSE None

(***************************************************************************)
(* The upstream API as one call of make_request sees it.  A response is    *)
(* what make_request hands back: [kind |-> "json", body |-> <the parsed    *)
(* list>], [kind |-> "none"] (make_request returned None) or               *)
(* [kind |-> "raise"] (an exception left make_request).                    *)
(***************************************************************************)
Min(a, b) == IF a <= b THEN a ELSE b

\* The value of F(v), with v computed once.
Let(v, F(_)) == CHOOSE y \in {F(x) : x \in {v}} : TRUE

\* page p (1-based) of a listing, per_page items a page
PageOf(listing, p) ==
    SubSeq(listing, (p - 1) * PerPage + 1, Min(p * PerPage, Len(listing)))

\* out: the outcome of the 1st, 2nd, ... request ("json" past its end)
OutcomeAt(out, p) == IF p <= Len(out) THEN out[p] ELSE "json"

Respond(listing, out, p) ==
    [kind |-> OutcomeAt(out, p),
     body |-> IF OutcomeAt(out, p) = "json" THEN PageOf(listing, p) ELSE <<>>]

(***************************************************************************)
(* fetch_all_pages: one turn of the while loop, given the response to the  *)
(* request for page st.page.  st = [page, all_items, requested, status].   *)
(***************************************************************************)
PageStart == [page |-> 1, all_items |-> <<>>, requested |-> <<>>,
              status |-> "run"]

\* a loop that goes on to the next page after a short page
PageStepPastShortPage(st, resp) ==
    LET req == Append(st.requested, st.page) IN
    IF resp.kind = "raise"
    THEN [st EXCEPT !.requested = req, !.status = "raised"]
    ELSE IF resp.kind = "none" \/ resp.body = <<>>
    THEN [st EXCEPT !.requested = req, !.status = "done"]
    ELSE [st EXCEPT !.requested = req,
                    !.all_items = st.all_items \o resp.body,
                    !.page = st.page + 1]

PageStep(st, resp) ==
    LET req == Append(st.requested, st.page) IN
    IF resp.kind = "raise"
    THEN [st EXCEPT !.requested = req, !.status = "raised"]
    ELSE IF resp.kind = "none" \/ resp.body = <<>>          \* if not items: break
    THEN [st EXCEPT !.requested = req, !.status = "done"]
    ELSE IF Len(resp.body) < PerPage                         \* short page: break
    THEN [st EXCEPT !.requested = req,
                    !.all_items = st.all_items \o resp.body,
                    !.status = "done"]
    ELSE [st EXCEPT !.requested = req,
                    !.all_items = st.all_items \o resp.body,
                    !.page = st.page + 1]

RECURSIVE FetchLoop(_, _, _)
FetchLoop(listing, out, st) ==
    IF st.status # "run" THEN st
    ELSE FetchLoop(listing, out, PageStep(st, Respond(listing, out, st.page)))

\* fetch_all_pages(base_url): the whole loop against one listing
FetchAllPages(listing, out) == FetchLoop(listing, out, PageStart)

(***************************************************************************)
(* Upstream records.  Times of upstream records are well-formed UTC        *)
(* strings, kept as their minute count; merged_at / closed_at are          *)
(* optional.                                                               *)
(***************************************************************************)
PR(n, c, u, m, who, title) ==
    [number |-> n, created_at |-> c, updated_at |-> u, merged_at |-> m,
     login |-> who, title |-> title, repository |-> <<>>]

Issue(n, c, cl, st, isPr) ==
    [number |-> n, created_at |-> c, closed_at |-> cl, state |-> st,
     pull_request |-> isPr, repository |-> <<>>]

\* datetime values: [aware, t]; comparing an aware with a naive one raises
Aware(t) == [aware |-> TRUE, t |-> t]
DtOf(parsed) == [aware |-> parsed.aware, t |-> parsed.t]

(***************************************************************************)
(* fetch_pull_requests, lines 143-165: the loop over the fetched listing.  *)
(* since is None or Some(datetime).  Returns [raised, items].              *)
(***************************************************************************)
InWindow(t, start_dt, end_dt) == start_dt.t <= t /\ t <= end_dt.t

\* relevance by creation alone
RelevantPRByCreation(pr, start_dt, end_dt) ==
    InWindow(pr.created_at, start_dt, end_dt)

RelevantPR(pr, start_dt, end_dt) ==
    \/ InWindow(pr.created_at, start_dt, end_dt)
    \/ (~IsNone(pr.merged_at) /\ InWindow(Val(pr.merged_at), start_dt, end_dt))

\* a cut that would also drop a record updated exactly at the watermark
BeforeSinceInclusive(pr, since) ==
    ~IsNone(since) /\ pr.updated_at <= Val(since).t

\* if since and updated_at < since
BeforeSince(pr, since) ==
    ~IsNone(since) /\ pr.updated_at < Val(since).t

\* the comparisons of lines 157-158 against a naive start_dt or end_dt
\* raise TypeError (the second one of a chain is made when the first holds)
CompareRaises(pr, start_dt, end_dt) ==
    \/ ~start_dt.aware
    \/ /\ ~end_dt.aware
       /\ \/ start_dt.t <= pr.created_at
          \/ (~IsNone(pr.merged_at) /\ start_dt.t <= Val(pr.merged_at))

\* the first position of s that satisfies P, Len(s) + 1 when none does
FirstAt(s, P(_)) ==
    LET hits == {i \in 1..Len(s) : P(s[i])} IN
    IF hits = {} THEN Len(s) + 1 ELSE CHOOSE i \in hits : \A j \in hits : i <= j

FilterPRs(all_prs, path, start_dt, end_dt, since) ==
    LET naiveSince == ~IsNone(since) /\ ~Val(since).aware    \* line 154 raises
        stop == IF naiveSince THEN 1
                ELSE FirstAt(all_prs, LAMBDA pr : BeforeSince(pr, since))
        fail == IF naiveSince THEN 1
                ELSE FirstAt(all_prs, LAMBDA pr : CompareRaises(pr, start_dt, end_dt))
        seen == SubSeq(all_prs, 1, stop - 1)
        kept == SelectSeq(seen, LAMBDA pr : RelevantPR(pr, start_dt, end_dt))
    IN IF all_prs # <<>> /\ fail <= stop /\ fail <= Len(all_prs)
       THEN [raised |-> TRUE, items |-> <<>>]
       ELSE [raised |-> FALSE,
             items |-> [i \in 1..Len(kept) |-> [kept[i] EXCEPT !.repository = path]]]

(***************************************************************************)
(* fetch_issues, lines 183-200.                                            *)
(***************************************************************************)
RelevantIssue(it, start_dt, end_dt) ==
    \/ InWindow(it.created_at, start_dt, end_dt)
    \/ (~IsNone(it.closed_at) /\ InWindow(Val(it.closed_at), start_dt, end_dt))

\* a listing in which no record counts as a pull request
IsPullRequestNever(item) == FALSE

\* "pull_request" in item
IsPullRequest(item) == item.pull_request

RECURSIVE FilterIssues(_, _, _, _)
FilterIssues(all_items, path, start_dt, end_dt) ==
    IF all_items = <<>> THEN [raised |-> FALSE, items |-> <<>>]
    ELSE LET rest == FilterIssues(Tail(all_items), path, start_dt, end_dt) IN
         IF IsPullRequest(Head(all_items)) THEN rest         \* continue
         ELSE IF ~start_dt.aware \/ ~end_dt.aware
         THEN [raised |-> TRUE, items |-> <<>>]              \* TypeError
         ELSE IF rest.raised THEN rest
         ELSE IF RelevantIssue(Head(all_items), start_dt, end_dt)
         THEN [rest EXCEPT !.items =
                  <<[Head(all_items) EXCEPT !.repository = path]>> \o rest.items]
         ELSE rest

(***************************************************************************)
(* The upstream data of the run-loop model: two repositories of the        *)
(* organization "acme", an organization "void" without repositories, and   *)
(* a path of one segment, which is no owner/name pair.                     *)
(***************************************************************************)
RepoW == <<"acme", "widgets">>
RepoG == <<"acme", "gears">>
BadPath == <<"widgets">>
RepoUniverse == {RepoW, RepoG, BadPath}

UpstreamOrg(org) ==
    IF org = "acme" THEN <<[full_name |-> Some(RepoW)], [full_name |-> Some(RepoG)]>>
    ELSE <<>>

UpstreamPRs(path) ==
    IF path = RepoW
    THEN {PR(1, 10, 20, Some(20), Alice, PlainTitle),
          PR(2, 30, 98, None, Bob, PlainTitle)}
    ELSE IF path = RepoG
    THEN {PR(3, 40, 40, Some(45), Carol, PlainTitle)}
    ELSE {}

UpstreamIssues(path) ==
    IF path = RepoW
    THEN <<Issue(5, 12, Some(15), "closed", FALSE), Issue(2, 30, None, "open", TRUE)>>
    ELSE <<>>

\* the API's listing of a set of pull requests, newest first by the sort key
SortDesc(S, Key(_)) ==
    LET Above(y, x) == \/ Key(y) > Key(x)
                       \/ (Key(y) = Key(x) /\ y.number > x.number)
        Place(x) == 1 + Cardinality({y \in S : Above(y, x)})
    IN Let({<<Place(x), x>> : x \in S},
           LAMBDA placed : [i \in 1..Cardinality(S) |->
                              (CHOOSE p \in placed : p[1] = i)[2]])

ListPulls(S, sort_param) ==
    SortDesc(S, LAMBDA x : IF sort_param = "updated" THEN x.updated_at
                           ELSE x.created_at)

(***************************************************************************)
(* fetch_org_repos(org): [raised, repos].                                  *)
(***************************************************************************)
FetchOrgRepos(org, out) ==
    LET got == FetchAllPages(UpstreamOrg(org), out)
        named == SelectSeq(got.all_items, LAMBDA r : ~IsNone(r.full_name))
    IN [raised |-> got.status = "raised",
        repos |-> [i \in 1..Len(named) |-> Val(named[i].full_name)]]

(***************************************************************************)
(* fetch_pull_requests(owner, repo, start_dt, end_dt, token, since) against *)
(* the upstream set S of pull requests: [raised, items, requested].         *)
(***************************************************************************)
SortParam(since) == IF IsNone(since) THEN "created" ELSE "updated"

FetchPullRequests(S, path, start_dt, end_dt, since, out) ==
    LET got == FetchAllPages(ListPulls(S, SortParam(since)), out)
        kept == FilterPRs(got.all_items, path, start_dt, end_dt, since)
    IN [raised |-> got.status = "raised" \/ kept.raised,
        items |-> IF got.status = "raised" THEN <<>> ELSE kept.items,
        requested |-> got.requested]

FetchIssues(listing, path, start_dt, end_dt, out) ==
    LET got == FetchAllPages(listing, out)
        kept == FilterIssues(got.all_items, path, start_dt, end_dt)
    IN [raised |-> got.status = "raised" \/ kept.raised,
        items |-> IF got.status = "raised" THEN <<>> ELSE kept.items]

(***************************************************************************)
(* process_hackathon_stats, lines 219-370, as the reducer it is: the       *)
(* accumulators of lines 222-237, one step per pull request, review and    *)
(* issue, then the leaderboards and the returned object.                   *)
(* A date is the number of its day: minute t of the clock lies on day      *)
(* t \div DayMinutes.  A dict is a function; participants is the sequence  *)
(* of the dict's values in insertion order.                                *)
(***************************************************************************)
DayMinutes == 1440      \* timedelta(days=1)

\* datetime.date() of a UTC time, and the [:10] of its ISO string
DateOf(t) == t \div DayMinutes

Review(id, who, state, submitted_at) ==
    [id |-> id, login |-> who, state |-> state, submitted_at |-> submitted_at]

Unknown == <<"unknown">>

\* record.get("repository", "unknown")
RepoKey(rec) == IF rec.repository = <<>> THEN Unknown ELSE rec.repository

IsMerged(pr) == ~IsNone(pr.merged_at)

\* the suffix test without lower()
IsBotCaseSensitive(username) ==
    Contains(username, BotTag) \/ EndsWith(username, BotSuffix)

\* "[bot]" in username or username.lower().endswith("bot")
IsBot(username) ==
    Contains(username, BotTag) \/ EndsWith(Lower(username), BotSuffix)

\* "copilot" in username.lower()
IsCopilotLogin(username) == Contains(Lower(username), CopilotWord)

\* "copilot" in username.lower() or "copilot" in title.lower()
IsCopilot(pr) ==
    IsCopilotLogin(pr.login) \/ Contains(Lower(pr.title), CopilotWord)

ZeroDay == [total |-> 0, merged |-> 0]
ZeroRepo == [total |-> 0, merged |-> 0, issues |-> 0, closedIssues |-> 0]

\* d[k] = v  and  d.get(k, default)
Put(d, k, v) == [x \in DOMAIN d \cup {k} |-> IF x = k THEN v ELSE d[x]]
Get(d, k, default) == IF k \in DOMAIN d THEN d[k] ELSE default

\* the daily map stopping the day before the end date
StatsStartBeforeEndDate(start_dt, end_dt, repositories) ==
    [daily_activity |->
         [d \in DateOf(start_dt.t)..(DateOf(end_dt.t) - 1) |-> ZeroDay],
     participants |-> <<>>,
     repo_stats |-> [r \in Range(repositories) |-> ZeroRepo],
     total_prs |-> 0,
     merged_prs |-> 0,
     daily_merged_prs |-> <<>>,
     total_issues |-> 0,
     closed_issues |-> 0]

\* lines 222-237
StatsStart(start_dt, end_dt, repositories) ==
    [daily_activity |-> [d \in DateOf(start_dt.t)..DateOf(end_dt.t) |-> ZeroDay],
     participants |-> <<>>,
     repo_stats |-> [r \in Range(repositories) |-> ZeroRepo],
     total_prs |-> 0,
     merged_prs |-> 0,
     daily_merged_prs |-> <<>>,
     total_issues |-> 0,
     closed_issues |-> 0]

NewParticipant(username) ==
    [username |-> username, mergedCount |-> 0, prCount |-> 0, reviewCount |-> 0,
     reviews |-> <<>>]

\* if username not in participants: participants[username] = {...}; then
\* the counters of that entry are raised
Credit(participants, username, prs, merged, reviews) ==
    LET known == \E i \in DOMAIN participants :
                    participants[i].username = username
        all == IF known THEN participants
               ELSE Append(participants, NewParticipant(username))
    IN [i \in DOMAIN all |->
          IF all[i].username = username
          THEN [all[i] EXCEPT !.prCount = @ + prs, !.mergedCount = @ + merged,
                              !.reviewCount = @ + Len(reviews),
                              !.reviews = @ \o reviews]
          ELSE all[i]]

\* the loop over prs counting per repository only where an entry exists
StatsPRKnownRepos(acc, pr, start_dt, end_dt) ==
    LET is_merged == IsMerged(pr)
        one == IF is_merged THEN 1 ELSE 0
        repo_key == RepoKey(pr)
        entry == Get(acc.repo_stats, repo_key, ZeroRepo)
        created_date == DateOf(pr.created_at)
        merged_date == DateOf(Val(pr.merged_at))
        created == IF /\ created_date \in DOMAIN acc.daily_activity
                      /\ start_dt.t <= pr.created_at /\ pr.created_at <= end_dt.t
                   THEN [acc.daily_activity EXCEPT ![created_date].total = @ + 1]
                   ELSE acc.daily_activity
    IN [acc EXCEPT
          !.total_prs = @ + 1,
          !.merged_prs = @ + one,
          !.repo_stats = IF repo_key \in DOMAIN @
                         THEN Put(@, repo_key, [entry EXCEPT !.total = @ + 1,
                                                             !.merged = @ + one])
                         ELSE @,
          !.daily_activity =
              IF is_merged /\ merged_date \in DOMAIN created
              THEN [created EXCEPT ![merged_date].merged = @ + 1]
              ELSE created,
          !.daily_merged_prs =
              IF is_merged
              THEN Put(acc.daily_merged_prs, merged_date,
                       Get(acc.daily_merged_prs, merged_date, 0) + 1)
              ELSE @,
          !.participants =
              IF ~IsBot(pr.login) /\ ~IsCopilot(pr)
              THEN Credit(@, pr.login, 1, one, <<>>)
              ELSE @]

\* lines 239-287: one turn of the loop over prs
StatsPR(acc, pr, start_dt, end_dt) ==
    LET is_merged == IsMerged(pr)
        one == IF is_merged THEN 1 ELSE 0
        repo_key == RepoKey(pr)
        entry == Get(acc.repo_stats, repo_key, ZeroRepo)
        created_date == DateOf(pr.created_at)
        merged_date == DateOf(Val(pr.merged_at))
        created == IF /\ created_date \in DOMAIN acc.daily_activity
                      /\ start_dt.t <= pr.created_at /\ pr.created_at <= end_dt.t
                   THEN [acc.daily_activity EXCEPT ![created_date].total = @ + 1]
                   ELSE acc.daily_activity
    IN [acc EXCEPT
          !.total_prs = @ + 1,
          !.merged_prs = @ + one,
          !.repo_stats = Put(@, repo_key,
                             [entry EXCEPT !.total = @ + 1, !.merged = @ + one]),
          !.daily_activity =
              IF is_merged /\ merged_date \in DOMAIN created
              THEN [created EXCEPT ![merged_date].merged = @ + 1]
              ELSE created,
          !.daily_merged_prs =
              IF is_merged
              THEN Put(acc.daily_merged_prs, merged_date,
                       Get(acc.daily_merged_prs, merged_date, 0) + 1)
              ELSE @,
          !.participants =
              IF ~IsBot(pr.login) /\ ~IsCopilot(pr)
              THEN Credit(@, pr.login, 1, one, <<>>)
              ELSE @]

\* lines 290-331: one turn of the loop over all_reviews
StatsReview(acc, review, start_dt, end_dt) ==
    IF \/ IsBot(review.login) \/ IsCopilotLogin(review.login)
       \/ review.state = "DISMISSED"
    THEN acc
    ELSE IF IsNone(review.submitted_at) THEN acc
    ELSE IF ~(/\ start_dt.t <= Val(review.submitted_at)
              /\ Val(review.submitted_at) <= end_dt.t)
    THEN acc
    ELSE [acc EXCEPT !.participants =
             Credit(@, review.login, 0, 0, <<review.id>>)]

\* the loop over issues counting per repository only where an entry exists
StatsIssueKnownRepos(acc, issue) ==
    LET repo_key == RepoKey(issue)
        entry == Get(acc.repo_stats, repo_key, ZeroRepo)
        closed == IF issue.state = "closed" THEN 1 ELSE 0
    IN [acc EXCEPT
          !.repo_stats = IF repo_key \in DOMAIN @
                         THEN Put(@, repo_key,
                                  [entry EXCEPT !.issues = @ + 1,
                                                !.closedIssues = @ + closed])
                         ELSE @,
          !.total_issues = @ + 1,
          !.closed_issues = @ + closed]

\* lines 336-345: one turn of the loop over issues
StatsIssue(acc, issue) ==
    LET repo_key == RepoKey(issue)
        entry == Get(acc.repo_stats, repo_key, ZeroRepo)
        closed == IF issue.state = "closed" THEN 1 ELSE 0
    IN [acc EXCEPT
          !.repo_stats = Put(@, repo_key,
                             [entry EXCEPT !.issues = @ + 1,
                                           !.closedIssues = @ + closed]),
          !.total_issues = @ + 1,
          !.closed_issues = @ + closed]

\* the descending order got by reversing an ascending sort: ties come out
\* last-seen first
LeaderboardTiesReversed(participants, field) ==
    LET kept == SelectSeq(participants, LAMBDA p : p[field] > 0)
        Place(i) == 1 + Cardinality({j \in DOMAIN kept :
                          \/ kept[j][field] > kept[i][field]
                          \/ (kept[j][field] = kept[i][field] /\ j > i)})
    IN [k \in DOMAIN kept |-> kept[CHOOSE i \in DOMAIN kept : Place(i) = k]]

\* lines 348-357: sorted(key=..., reverse=True) of the participants whose
\* count is positive; the sort is stable, reverse or not
Leaderboard(participants, field) ==
    LET kept == SelectSeq(participants, LAMBDA p : p[field] > 0)
        Place(i) == 1 + Cardinality({j \in DOMAIN kept :
                          \/ kept[j][field] > kept[i][field]
                          \/ (kept[j][field] = kept[i][field] /\ j < i)})
    IN [k \in DOMAIN kept |-> kept[CHOOSE i \in DOMAIN kept : Place(i) = k]]

\* lines 359-370
StatsReturn(acc) ==
    [totalPRs |-> acc.total_prs,
     mergedPRs |-> acc.merged_prs,
     totalIssues |-> acc.total_issues,
     closedIssues |-> acc.closed_issues,
     participantCount |-> Len(acc.participants),
     leaderboard |-> Leaderboard(acc.participants, "mergedCount"),
     reviewLeaderboard |-> Leaderboard(acc.participants, "reviewCount"),
     repoStats |-> acc.repo_stats,
     dailyActivity |-> acc.daily_activity,
     dailyMergedPRs |-> acc.daily_merged_prs]

RECURSIVE StatsPRs(_, _, _, _)
StatsPRs(acc, prs, start_dt, end_dt) ==
    IF prs = <<>> THEN acc
    ELSE StatsPRs(StatsPR(acc, Head(prs), start_dt, end_dt), Tail(prs),
                  start_dt, end_dt)

RECURSIVE StatsReviews(_, _, _, _)
StatsReviews(acc, all_reviews, start_dt, end_dt) ==
    IF all_reviews = <<>> THEN acc
    ELSE StatsReviews(StatsReview(acc, Head(all_reviews), start_dt, end_dt),
                      Tail(all_reviews), start_dt, end_dt)

RECURSIVE StatsIssues(_, _)
StatsIssues(acc, issues) ==
    IF issues = <<>> THEN acc
    ELSE StatsIssues(StatsIssue(acc, Head(issues)), Tail(issues))

ProcessHackathonStats(prs, all_reviews, issues, start_dt, end_dt, repositories) ==
    StatsReturn(
        StatsIssues(
            StatsReviews(
                StatsPRs(StatsStart(start_dt, end_dt, repositories),
                         prs, start_dt, end_dt),
                all_reviews, start_dt, end_dt),
            issues))

(***************************************************************************)
(* What the upstream does during one call of process_hackathon:            *)
(*   org      what make_request returns for the organization listing       *)
(*   repoOut  per repository, what it returns for that repository's        *)
(*            requests (pulls, reviews, issues, metadata)                  *)
(*   order    the iteration order of the set built at line 429             *)
(***************************************************************************)
Outcomes == {"json", "none", "raise"}

Orders ==
    {o \in [1..Cardinality(RepoUniverse) -> RepoUniverse] :
        \A i, j \in DOMAIN o : o[i] = o[j] => i = j}

AllUp == [r \in RepoUniverse |-> "json"]

Failures(org, repoOut) ==
    (IF org # "json" THEN 1 ELSE 0)
      + Cardinality({r \in RepoUniverse : repoOut[r] # "json"})

\* every pattern of request outcomes, with the number of failures in it
Patterns ==
    {[org |-> o, repoOut |-> f, failures |-> Failures(o, f)] :
        o \in Outcomes, f \in [RepoUniverse -> Outcomes]}

FirstOrder == CHOOSE o \in Orders : TRUE

\* one order of the universe for every order of its subset U
OrdersOf(U) ==
    {o \in Orders :
        \A i, j \in DOMAIN o :
            (i < j /\ o[i] \notin U) =>
                /\ o[j] \notin U
                /\ \E a, b \in DOMAIN FirstOrder :
                      a < b /\ FirstOrder[a] = o[i] /\ FirstOrder[b] = o[j]}

\* The environments one call may meet when at most k of its requests' targets
\* fail.  Only what the call can observe varies: the organization listing's
\* outcome when it is fetched, the outcome of the repositories it can reach,
\* the order of the set it builds from the explicit and the listed paths.
EnvsFor(ev, cache, k) ==
    LET hasOrg == ~IsNone(ev.organization)
        fetches == hasOrg /\ Val(ev.organization) \notin DOMAIN cache
        reach == {r \in RepoUniverse :
                    Len(r) = 2 /\ (hasOrg \/ r \in Range(ev.repositories))}
        union == IF hasOrg
                 THEN Range(ev.repositories)
                        \cup {Val(x.full_name) : x \in Range(UpstreamOrg(Val(ev.organization)))}
                 ELSE {}
    IN {[org |-> p.org, repoOut |-> p.repoOut, order |-> o] :
           p \in {q \in Patterns :
                    /\ q.failures <= k
                    /\ (q.org = "json" \/ fetches)
                    /\ \A r \in RepoUniverse \ reach : q.repoOut[r] = "json"},
           o \in OrdersOf(union)}

\* list(set): the elements of S in the order the interpreter happens to use
ListOfSet(S, order) == SelectSeq(order, LAMBDA x : x \in S)

(***************************************************************************)
(* process_hackathon, lines 408-441: repository resolution.                *)
(* cache is org_repos_cache (a function from organization names).          *)
(***************************************************************************)
\* if org_repos and org_repos_cache is not None: org_repos_cache[org] = org_repos
CachePut(cache, org, org_repos) ==
    IF org_repos # <<>>
    THEN [o \in DOMAIN cache \cup {org} |-> IF o = org THEN org_repos ELSE cache[o]]
    ELSE cache

\* if org_repos: repositories = list({*repositories, *org_repos})
Combine(repositories, org_repos, order) ==
    IF org_repos # <<>>
    THEN ListOfSet(Range(repositories) \cup Range(org_repos), order)
    ELSE repositories

ResolveRepositories(explicit_repos, organization, cache, env) ==
    IF IsNone(organization)
    THEN [repositories |-> explicit_repos, cache |-> cache, fetched |-> FALSE,
          org_repos |-> <<>>]
    ELSE LET org == Val(organization)
             cached == org \in DOMAIN cache
             got == FetchOrgRepos(org, <<env.org>>)
             org_repos == IF cached THEN cache[org]
                          ELSE IF got.raised THEN <<>> ELSE got.repos
         IN [repositories |-> Combine(explicit_repos, org_repos, env.order),
             cache |-> IF cached \/ got.raised THEN cache
                       ELSE CachePut(cache, org, org_repos),
             fetched |-> ~cached,
             org_repos |-> org_repos]

(***************************************************************************)
(* process_hackathon, lines 390-406: the prior snapshot and the watermark. *)
(* [err, since]: err # "" when the statement raises.                       *)
(***************************************************************************)
Watermark(f) ==
    LET existing == LoadExistingData(f) IN
    IF IsNone(existing) \/ Val(existing).json = "falsy"     \* if existing_data:
    THEN [err |-> "", since |-> None]
    ELSE IF Val(existing).json # "object"                    \* .get on a list
    THEN [err |-> "AttributeError: existing_data.get", since |-> None]
    ELSE IF Val(existing).lastUpdated.fmt = "none"           \* if last_updated:
    THEN [err |-> "", since |-> None]
    ELSE LET lu == FromIso(Val(existing).lastUpdated) IN
         IF lu.err # ""
         THEN [err |-> lu.err \o ": lastUpdated", since |-> None]
         ELSE [err |-> "",
               since |-> Some([aware |-> lu.aware, t |-> lu.t - SafetyMargin])]

(***************************************************************************)
(* process_hackathon, lines 443-538, for a resolved repository list.       *)
(***************************************************************************)
ValidPath(path) == Len(path) = 2

Call(slug, op, arg) == [ev |-> slug, op |-> op, arg |-> arg, number |-> 0]
CallPR(slug, op, pr) ==
    [ev |-> slug, op |-> op, arg |-> pr.repository, number |-> pr.number]

PullsOf(path, start_dt, end_dt, since, env) ==
    IF ~ValidPath(path) THEN <<>>
    ELSE LET r == FetchPullRequests(UpstreamPRs(path), path, start_dt, end_dt,
                                    since, <<env.repoOut[path]>>)
         IN IF r.raised THEN <<>> ELSE r.items

IssuesOf(path, start_dt, end_dt, env) ==
    IF ~ValidPath(path) THEN <<>>
    ELSE LET r == FetchIssues(UpstreamIssues(path), path, start_dt, end_dt,
                              <<env.repoOut[path]>>)
         IN IF r.raised THEN <<>> ELSE r.items

Aggregate(slug, repositories, all_prs, all_issues, start_dt, end_dt, clock, env) ==
    LET valid == SelectSeq(repositories, ValidPath) IN
    [data |-> [json |-> "object", lastUpdated |-> IsoNow(clock),
               repositories |-> repositories,
               stats |-> ProcessHackathonStats(all_prs, <<>>, all_issues,
                                               start_dt, end_dt, repositories)],
     calls |-> [i \in 1..Len(valid) |-> Call(slug, "pulls", valid[i])]
               \o [i \in 1..Len(all_prs) |-> CallPR(slug, "reviews", all_prs[i])]
               \o [i \in 1..Len(valid) |-> Call(slug, "issues", valid[i])]
               \o [i \in 1..Len(valid) |-> Call(slug, "meta", valid[i])],
     failed |-> Cardinality({r \in Range(valid) : env.repoOut[r] # "json"})]

FetchAndAggregate(slug, repositories, start_dt, end_dt, since, clock, env) ==
    Let(<<Flatten([i \in 1..Len(repositories) |->
              PullsOf(repositories[i], start_dt, end_dt, since, env)]),
          Flatten([i \in 1..Len(repositories) |->
              IssuesOf(repositories[i], start_dt, end_dt, env)])>>,
        LAMBDA got : Aggregate(slug, repositories, got[1], got[2],
                               start_dt, end_dt, clock, env))

(***************************************************************************)
(* process_hackathon(hackathon_config, token, org_repos_cache).            *)
(* outcome "raise": an exception leaves it; "none": it returns None;       *)
(* "data": it returns the snapshot document.                               *)
(***************************************************************************)
Raised(err, cache) ==
    [outcome |-> "raise", err |-> err, data |-> Absent, cache |-> cache,
     calls |-> <<>>, since |-> None, resolved |-> <<>>, org_repos |-> <<>>,
     failed |-> 0]

Resolved(ev, start, end, wm, res, clock, env) ==
    LET orgCalls == IF res.fetched
                    THEN <<Call(ev.slug, "org", Val(ev.organization))>> ELSE <<>>
        orgFailed == IF res.fetched /\ env.org # "json" THEN 1 ELSE 0
    IN IF res.repositories = <<>>                           \* return None
       THEN [outcome |-> "none", err |-> "", data |-> Absent, cache |-> res.cache,
             calls |-> orgCalls, since |-> wm.since, resolved |-> <<>>,
             org_repos |-> res.org_repos, failed |-> orgFailed]
       ELSE Let(FetchAndAggregate(ev.slug, res.repositories, DtOf(start), DtOf(end),
                                  wm.since, clock, env),
                LAMBDA run :
                  [outcome |-> "data", err |-> "", data |-> run.data,
                   cache |-> res.cache, calls |-> orgCalls \o run.calls,
                   since |-> wm.since, resolved |-> res.repositories,
                   org_repos |-> res.org_repos, failed |-> orgFailed + run.failed])

ProcessHackathon(ev, f, cache, clock, env) ==
    LET start == FromIso(ev.startTime)
        end == FromIso(ev.endTime)
        wm == Watermark(f)
    IN IF start.err # "" THEN Raised(start.err \o ": startTime", cache)
       ELSE IF end.err # "" THEN Raised(end.err \o ": endTime", cache)
       ELSE IF wm.err # "" THEN Raised(wm.err, cache)
       ELSE Let(ResolveRepositories(ev.repositories, ev.organization, cache, env),
                LAMBDA res : Resolved(ev, start, end, wm, res, clock, env))

(***************************************************************************)
(* main(): the run loop.  A run starts from the idle state (the scheduler  *)
(* starts the script every hour), handles the events of the configuration  *)
(* in order and writes the summary.                                        *)
(***************************************************************************)
Slugs == 1..MaxEvents
RunGap == {60}

Event(slug, startTime, endTime, organization, repositories) ==
    [slug |-> slug, startTime |-> startTime, endTime |-> endTime,
     organization |-> organization, repositories |-> repositories]

Never ==
    [run |-> 0, what |-> "never", err |-> "", since |-> None, resolved |-> <<>>,
     org_repos |-> <<>>, prior |-> Absent, priorRun |-> 0, ended |-> FALSE,
     full |-> Absent, lost |-> {}, priorLost |-> {}]

Ended(ev, clock) ==
    LET a == IsHackathonActive(ev.endTime, clock) IN a.err = "" /\ ~a.val

\* skip rules the code does not have: without the look at the data file,
\* and no skip at all
SkipsWheneverEnded(ev, f, clock) == Ended(ev, clock)
SkipsNever(ev, f, clock) == FALSE

\* lines 577-584: not active, and the data file exists: continue
Skips(ev, f, clock) == Ended(ev, clock) /\ Exists(f)

\* lines 541-568: the configuration is read and the run begins
StartRun ==
    /\ pc \in {"idle", "crashed", "exit1"}
    /\ runs < MaxRuns
    /\ config.present /\ config.hackathons # <<>>
    /\ \E d \in RunGap : now' = now + d
    /\ runs' = runs + 1
    /\ pc' = "loop"
    /\ idx' = 1
    /\ orgCache' = <<>>
    /\ calls' = <<>>
    /\ runStart' = files
    /\ UNCHANGED <<config, files, summary, last, hist, faults, rq, fp, ps, fi>>

\* lines 546-548 and 559-562: sys.exit(1)
ExitNoConfig ==
    /\ pc \in {"idle", "crashed", "exit1"}
    /\ runs < MaxRuns
    /\ ~(config.present /\ config.hackathons # <<>>)
    /\ \E d \in RunGap : now' = now + d
    /\ runs' = runs + 1
    /\ pc' = "exit1"
    /\ calls' = <<>>
    /\ runStart' = files
    /\ UNCHANGED <<config, files, idx, orgCache, summary, last, hist, faults, rq, fp, ps, fi>>

Handling == pc = "loop" /\ idx <= Len(config.hackathons)
Current == config.hackathons[idx]

\* line 577: is_hackathon_active raises; nothing in main catches it
LifecycleRaises ==
    /\ Handling
    /\ IsHackathonActive(Current.endTime, now).err # ""
    /\ pc' = "crashed"
    /\ last' = [last EXCEPT ![Current.slug] =
                  [Never EXCEPT !.run = runs, !.what = "crash",
                                !.err = IsHackathonActive(Current.endTime, now).err,
                                !.prior = files[Current.slug]]]
    /\ UNCHANGED <<config, now, files, idx, orgCache, calls, runs, summary, hist,
                   runStart, faults, rq, fp, ps, fi>>

\* lines 577-584: an ended event whose data file exists: continue
SkipEnded ==
    /\ Handling
    /\ IsHackathonActive(Current.endTime, now).err = ""
    /\ Skips(Current, files[Current.slug], now)
    /\ idx' = idx + 1
    /\ last' = [last EXCEPT ![Current.slug] =
                  [Never EXCEPT !.run = runs, !.what = "skipped", !.ended = TRUE,
                                !.prior = files[Current.slug],
                                !.priorRun = hist[Current.slug].wrote]]
    /\ UNCHANGED <<config, now, files, pc, orgCache, calls, runs, summary, hist,
                   runStart, faults, rq, fp, ps, fi>>

\* lines 453-459: the repositories whose fetch gave nothing in this handling,
\* make_request having returned None or the except clause having caught
Lost(r, env) ==
    {path \in Range(r.resolved) : ValidPath(path) /\ env.repoOut[path] # "json"}

\* a dump of whatever process_hackathon gave back
DumpWhatever(fs, slug, r) ==
    IF r.outcome # "raise" THEN [fs EXCEPT ![slug] = r.data] ELSE fs

\* lines 589-593: if data: json.dump(data, f)
Dump(fs, slug, r) ==
    IF r.outcome = "data" THEN [fs EXCEPT ![slug] = r.data] ELSE fs

\* lines 586-598: process_hackathon inside the try, then the dump
ProcessEvent ==
    /\ Handling
    /\ IsHackathonActive(Current.endTime, now).err = ""
    /\ ~Skips(Current, files[Current.slug], now)
    /\ \E env \in EnvsFor(Current, orgCache, faults) :
       \E r \in {ProcessHackathon(Current, files[Current.slug], orgCache, now, env)} :
       \E ref \in {IF IsNone(r.since) THEN r.data
                   ELSE ProcessHackathon(Current, Absent, orgCache, now, env).data} :
         LET ev == Current
             ended == ~IsHackathonActive(ev.endTime, now).val
         IN /\ r.failed <= faults
            /\ faults' = faults - r.failed
            /\ orgCache' = r.cache
            /\ calls' = calls \o r.calls
            /\ files' = Dump(files, ev.slug, r)
            /\ last' = [last EXCEPT ![ev.slug] =
                  [run |-> runs, what |-> r.outcome, err |-> r.err,
                   since |-> r.since, resolved |-> r.resolved,
                   org_repos |-> r.org_repos, prior |-> files[ev.slug],
                   priorRun |-> hist[ev.slug].wrote,
                   ended |-> ended, full |-> ref,
                   lost |-> Lost(r, env),
                   priorLost |-> IF hist[ev.slug].wrote = last[ev.slug].run
                                 THEN last[ev.slug].lost ELSE {}]]
            /\ hist' = [hist EXCEPT ![ev.slug] =
                  [processed |-> @.processed + 1,
                   finalized |-> @.finalized + (IF ended THEN 1 ELSE 0),
                   wrote |-> IF r.outcome = "data" THEN runs ELSE @.wrote]]
    /\ idx' = idx + 1
    /\ UNCHANGED <<config, now, pc, runs, summary, runStart, rq, fp, ps, fi>>

\* lines 600-625: stats.json
WriteSummary ==
    /\ pc = "loop"
    /\ idx > Len(config.hackathons)
    /\ summary' = runs
    /\ pc' = "idle"
    /\ UNCHANGED <<config, now, files, idx, orgCache, calls, runs, last, hist,
                   runStart, faults, rq, fp, ps, fi>>

Next ==
    \/ StartRun
    \/ ExitNoConfig
    \/ LifecycleRaises
    \/ SkipEnded
    \/ ProcessEvent
    \/ WriteSummary

(***************************************************************************)
(* Initial states: the configurations and the hackathon-data directory a   *)
(* first run may find.  The clock starts at minute 100 and a run starts    *)
(* every hour; an event window opens at minute 0.                          *)
(*                                                                         *)
(* Families of configurations explored:                                    *)
(*   lifecycle  events that ended, end between the runs, are still open    *)
(*              or carry an unusable endTime / startTime                   *)
(*   lone       one event, with every shape of repository source           *)
(*   resolve    two open events that may share an organization              *)
(*   snapshot   one open event and every state of its prior snapshot file  *)
(***************************************************************************)
MaxFaults == 1

OldSnapshot == FileOf("object", Utc(40))

\* ends before the first run / between the runs / after them / unusable
LifecycleEvents(slug) ==
    {Event(slug, Utc(0), e, None, <<RepoW>>) :
        e \in {Utc(50), Utc(200), Utc(1000), Garbage}}
      \cup {Event(slug, Utc(0), Utc(50), None, <<>>),
            Event(slug, Garbage, Utc(50), None, <<RepoW>>)}

\* further shapes, met in configurations of one event
LoneEvents(slug) ==
    {Event(slug, Utc(0), e, None, <<RepoW>>) : e \in {Naive(1000), Missing}}
      \cup {Event(slug, Garbage, Utc(1000), None, <<RepoW>>),
            Event(slug, Naive(0), Utc(1000), None, <<RepoW>>),
            Event(slug, Utc(0), Utc(50), Some("acme"), <<>>)}
      \cup {Event(slug, Utc(0), Utc(1000), org, repos) :
              org \in {None, Some("acme"), Some("void")},
              repos \in {<<>>, <<RepoW>>, <<RepoW, RepoW>>, <<BadPath>>,
                         <<BadPath, RepoG>>}}

\* events that share an organization
ResolveEvents(slug) ==
    {Event(slug, Utc(0), Utc(1000), Some(org), repos) :
        org \in {"acme", "void"}, repos \in {<<>>, <<RepoW>>}}

SnapshotEvents(slug) ==
    {Event(slug, Utc(0), Utc(1000), None, <<RepoW>>),
     Event(slug, Utc(0), Utc(1000), None, <<RepoW, RepoG>>)}

PriorFiles ==
    {Absent, FileOf("invalid", Missing), FileOf("falsy", Missing),
     FileOf("nonobject", Missing), FileOf("object", Missing),
     FileOf("object", Garbage), FileOf("object", Naive(40)),
     FileOf("object", Utc(40)), FileOf("object", Utc(96))}

\* the configurations of n events whose i-th event is drawn from pool(i)
ConfigsOf(pool(_), n) ==
    {[present |-> TRUE, hackathons |-> h] :
        h \in {q \in [1..n -> UNION {pool(i) : i \in 1..n}] :
                  \A i \in 1..n : q[i] \in pool(i)}}

NoFiles == [sl \in Slugs |-> Absent]

InitLifecycle ==
    /\ \E n \in 1..MaxEvents :
         /\ config \in ConfigsOf(LifecycleEvents, n)
         /\ files \in {f \in [Slugs -> {Absent, OldSnapshot}] :
                          \A sl \in Slugs : sl > n => f[sl] = Absent}
    /\ faults = 0

InitLone ==
    /\ config \in ConfigsOf(LoneEvents, 1)
    /\ \E f \in {Absent, OldSnapshot} : files = [NoFiles EXCEPT ![1] = f]
    /\ faults \in 0..MaxFaults

InitResolve ==
    /\ config \in ConfigsOf(ResolveEvents, 2)
    /\ files = NoFiles
    /\ faults \in 0..MaxFaults

InitSnapshot ==
    /\ config \in ConfigsOf(SnapshotEvents, 1)
    /\ \E f \in PriorFiles : files = [NoFiles EXCEPT ![1] = f]
    /\ faults \in 0..MaxFaults

InitNoConfig ==
    /\ config \in {[present |-> FALSE, hackathons |-> <<>>],
                   [present |-> TRUE, hackathons |-> <<>>]}
    /\ files \in [Slugs -> {Absent, OldSnapshot}]
    /\ faults = 0

IdleRq == [pc |-> "off"]
IdleFp == [pc |-> "off"]
IdlePs == [pc |-> "off"]
IdleFi == [pc |-> "off"]

Init ==
    /\ \/ InitLifecycle
       \/ InitLone
       \/ InitResolve
       \/ InitSnapshot
       \/ InitNoConfig
    /\ now = 100
    /\ pc = "idle"
    /\ idx = 0
    /\ orgCache = <<>>
    /\ calls = <<>>
    /\ runs = 0
    /\ summary = 0
    /\ last = [sl \in Slugs |-> Never]
    /\ hist = [sl \in Slugs |-> [processed |-> 0, finalized |-> 0, wrote |-> 0]]
    /\ runStart = files
    /\ rq = IdleRq
    /\ fp = IdleFp
    /\ ps = IdlePs
    /\ fi = IdleFi

Spec == Init /\ [][Next]_vars

(***************************************************************************)
(* make_request(url, token, retry_count=3), lines 54-89, one action per    *)
(* way a turn of its for loop ends.  An exchange is what urlopen, read and *)
(* json.loads give on one attempt.  Sleeps are in seconds.                 *)
(*   rq = [pc, attempt, log, sleeps, result, err]                          *)
(*   pc: "try" (in the loop), "returned", "raised"                         *)
(***************************************************************************)
RateLimitFloor == 10        \* max(..., 10)
RateLimitDefault == 60      \* ... if reset else 60
RateLimitCap == 300         \* min(wait, 300)
BackoffUnit == 5            \* time.sleep(5 * (attempt + 1))

\* the X-RateLimit-Reset header of a 429/403: absent, not an integer, or
\* an epoch second 100 s ago / 20 s ahead / 1000 s ahead
ResetHints == {"absent", "malformed", "past", "soon", "far"}
ResetDelta(reset) ==
    CASE reset = "past" -> 0 - 100
      [] reset = "soon" -> 20
      [] reset = "far" -> 1000

Max(a, b) == IF a >= b THEN a ELSE b

\* line 71, then min(wait, 300) of lines 72-73
RateLimitSleep(reset) ==
    LET wait == IF reset = "absent" THEN RateLimitDefault
                ELSE Max(ResetDelta(reset) + 5, RateLimitFloor)
    IN Min(wait, RateLimitCap)

Exchange(kind, code, reset) == [kind |-> kind, code |-> code, reset |-> reset]

RqState(pc0, attempt, log, sleeps, result, err) ==
    [pc |-> pc0, attempt |-> attempt, log |-> log, sleeps |-> sleeps,
     result |-> result, err |-> err]

RqTrying == rq.pc = "try" /\ rq.attempt < RetryCount

RqReturn(x, result) ==
    rq' = [rq EXCEPT !.pc = "returned", !.log = Append(@, x), !.result = result]

RqRaise(x, err) ==
    rq' = [rq EXCEPT !.pc = "raised", !.log = Append(@, x), !.err = err]

RqRetry(x, seconds) ==
    rq' = [rq EXCEPT !.attempt = @ + 1, !.log = Append(@, x),
                     !.sleeps = Append(@, seconds)]

\* lines 79-82 and 85-88
RqBackoff(x) ==
    IF rq.attempt < RetryCount - 1
    THEN RqRetry(x, BackoffUnit * (rq.attempt + 1))
    ELSE RqReturn(x, "None")

\* lines 65-67: a 2xx whose body parses
RqReturnsJson ==
    /\ RqTrying
    /\ RqReturn(Exchange("ok", 200, "absent"), "json")
    /\ UNCHANGED <<mainVars, fp, ps, fi>>

\* line 67: json.loads raises json.JSONDecodeError, which no clause catches
RqBodyUnparseable ==
    /\ RqTrying
    /\ RqRaise(Exchange("garbage", 200, "absent"), "JSONDecodeError")
    /\ UNCHANGED <<mainVars, fp, ps, fi>>

\* lines 66-67: the read times out; socket.timeout is no URLError
RqReadTimeout ==
    /\ RqTrying
    /\ RqRaise(Exchange("timeout", 0, "absent"), "TimeoutError")
    /\ UNCHANGED <<mainVars, fp, ps, fi>>

\* lines 69-73: 429 or 403; int(reset) raises ValueError inside the handler
RqRateLimited ==
    /\ RqTrying
    /\ \E code \in {429, 403}, reset \in ResetHints :
         IF reset = "malformed"
         THEN RqRaise(Exchange("http", code, reset), "ValueError")
         ELSE RqRetry(Exchange("http", code, reset), RateLimitSleep(reset))
    /\ UNCHANGED <<mainVars, fp, ps, fi>>

\* lines 74-76
RqNotFound ==
    /\ RqTrying
    /\ RqReturn(Exchange("http", 404, "absent"), "None")
    /\ UNCHANGED <<mainVars, fp, ps, fi>>

\* lines 77-82: any other status
RqHttpError ==
    /\ RqTrying
    /\ \E code \in {500, 502} : RqBackoff(Exchange("http", code, "absent"))
    /\ UNCHANGED <<mainVars, fp, ps, fi>>

\* lines 83-88
RqUrlError ==
    /\ RqTrying
    /\ RqBackoff(Exchange("urlerror", 0, "absent"))
    /\ UNCHANGED <<mainVars, fp, ps, fi>>

\* line 89: the loop ran out (the last attempt was rate limited)
RqExhausted ==
    /\ rq.pc = "try" /\ rq.attempt >= RetryCount
    /\ rq' = [rq EXCEPT !.pc = "returned", !.result = "None"]
    /\ UNCHANGED <<mainVars, fp, ps, fi>>

NextRequest ==
    \/ RqReturnsJson
    \/ RqBodyUnparseable
    \/ RqReadTimeout
    \/ RqRateLimited
    \/ RqNotFound
    \/ RqHttpError
    \/ RqUrlError
    \/ RqExhausted

\* the run loop at rest
MainIdle ==
    /\ config = [present |-> FALSE, hackathons |-> <<>>]
    /\ now = 100
    /\ files = NoFiles
    /\ pc = "idle"
    /\ idx = 0
    /\ orgCache = <<>>
    /\ calls = <<>>
    /\ runs = 0
    /\ summary = 0
    /\ last = [sl \in Slugs |-> Never]
    /\ hist = [sl \in Slugs |-> [processed |-> 0, finalized |-> 0, wrote |-> 0]]
    /\ runStart = files
    /\ faults = 0

InitRequest ==
    /\ MainIdle
    /\ rq = RqState("try", 0, <<>>, <<>>, "unset", "")
    /\ fp = IdleFp
    /\ ps = IdlePs
    /\ fi = IdleFi

SpecRequest == InitRequest /\ [][NextRequest]_vars

\* C7: make_request never raises to its caller: every call ends by
\* returning the parsed JSON or None.
C7_MakeRequestNeverRaises == rq.pc # "raised"

(***************************************************************************)
(* fetch_pull_requests step by step: the call (lines 135-140), each turn   *)
(* of the while loop of fetch_all_pages (lines 98-112), then the for loop  *)
(* over what it returned (lines 143-162).                                  *)
(*   fp = [pc, prior, upstream, since, listing, out, st, filtered]         *)
(*   pc: "call", "paging", "filter", "done", "raised"                      *)
(* The window of the event is [WinStart, WinEnd]; the prior snapshot gives *)
(* the watermark as in process_hackathon.                                  *)
(***************************************************************************)
MaxPick == 3       \* pull requests of a small upstream repository
MaxBig == 150      \* pull requests of a big one

WinStart == Aware(10)
WinEnd == Aware(200)

\* update times around a snapshot written at minute 96: 86 is ten minutes
\* before it, 91 five, 97 one minute after; creation and merge times inside
\* and outside the window, one creation at the very end of the window
SmallPRs ==
    {PR(1, 20, 86, None, Alice, PlainTitle),
     PR(2, 20, 90, None, Bob, PlainTitle),
     PR(3, 20, 91, Some(91), Carol, PlainTitle),
     PR(4, 30, 92, None, Alice, PlainTitle),
     PR(5, 30, 97, None, Bob, PlainTitle),
     PR(6, 5, 98, None, Carol, PlainTitle),
     PR(7, 5, 95, Some(50), Alice, PlainTitle),
     PR(8, 5, 80, Some(8), Bob, PlainTitle),
     PR(9, 200, 205, None, Carol, PlainTitle)}

\* a repository of n pull requests, the i-th updated at minute 300 - i
BigPRs(n) == {PR(i, 20, 300 - i, None, Alice, PlainTitle) : i \in 1..n}

FetchUpstreams ==
    {S \in SUBSET SmallPRs : Cardinality(S) <= MaxPick}
      \cup {BigPRs(n) : n \in {PerPage - 1, PerPage, MaxBig}}

FetchPriors ==
    {Absent, FileOf("object", Utc(40)), FileOf("object", Utc(96)),
     FileOf("object", Utc(260)), FileOf("object", Naive(96))}

FpState(pc0, prior, upstream, since, listing, out, st, filtered) ==
    [pc |-> pc0, prior |-> prior, upstream |-> upstream, since |-> since,
     listing |-> listing, out |-> out, st |-> st, filtered |-> filtered]

\* lines 135-140: the sort parameter and the URL of the listing
FpCall ==
    /\ fp.pc = "call"
    /\ fp' = [fp EXCEPT !.pc = "paging",
                        !.listing = ListPulls(fp.upstream, SortParam(fp.since)),
                        !.st = PageStart]
    /\ UNCHANGED <<mainVars, rq, ps, fi>>

\* lines 98-112: one turn of the while loop of fetch_all_pages
FpRequestPage ==
    /\ fp.pc = "paging"
    /\ \E st \in {PageStep(fp.st, Respond(fp.listing, fp.out, fp.st.page))} :
         fp' = [fp EXCEPT !.st = st,
                          !.pc = CASE st.status = "run" -> "paging"
                                   [] st.status = "done" -> "filter"
                                   [] st.status = "raised" -> "raised"]
    /\ UNCHANGED <<mainVars, rq, ps, fi>>

\* lines 143-165: the for loop over all_prs
FpFilter ==
    /\ fp.pc = "filter"
    /\ \E r \in {FilterPRs(fp.st.all_items, RepoW, WinStart, WinEnd, fp.since)} :
         fp' = [fp EXCEPT !.pc = IF r.raised THEN "raised" ELSE "done",
                          !.filtered = r.items]
    /\ UNCHANGED <<mainVars, rq, ps, fi>>

NextFetch ==
    \/ FpCall
    \/ FpRequestPage
    \/ FpFilter

\* what the requests of the call give: every page, or a failure (None or an
\* exception out of make_request) at the first or the second request
FetchOuts == {<<>>, <<"none">>, <<"raise">>, <<"json", "none">>, <<"json", "raise">>}

InitFetch ==
    /\ MainIdle
    /\ rq = IdleRq
    /\ ps = IdlePs
    /\ fi = IdleFi
    /\ \E prior \in FetchPriors, S \in FetchUpstreams, out \in FetchOuts :
         /\ Watermark(prior).err = ""
         /\ fp = FpState("call", prior, S, Watermark(prior).since, <<>>, out,
                         PageStart, <<>>)

SpecFetch == InitFetch /\ [][NextFetch]_vars

(***************************************************************************)
(* fetch_issues(owner, repo, start_dt, end_dt) for the repository          *)
(* acme/widgets and the window [WinStart, WinEnd]: the listing is fetched  *)
(* (line 180), then filtered (lines 182-197).                              *)
(*   fi = [pc, upstream, out, all_items, filtered]                         *)
(*   pc: "call", "filter", "done", "raised"                                *)
(***************************************************************************)
MaxIssuePick == 3

\* issues created or closed before, inside, at the edges of and after the
\* window, and pull requests the issues endpoint lists with them
IssuePool ==
    {Issue(1, 50, None, "open", FALSE),
     Issue(2, 5, Some(60), "closed", FALSE),
     Issue(3, 5, Some(8), "closed", FALSE),
     Issue(4, 300, None, "open", FALSE),
     Issue(5, 200, None, "open", FALSE),
     Issue(6, 4, Some(10), "closed", FALSE),
     Issue(7, 50, None, "open", TRUE),
     Issue(8, 6, Some(250), "closed", FALSE),
     Issue(9, 7, Some(60), "closed", TRUE)}

\* sort=created&direction=desc
ListIssues(S) == SortDesc(S, LAMBDA x : x.created_at)

FiState(pc0, upstream, out, all_items, filtered) ==
    [pc |-> pc0, upstream |-> upstream, out |-> out, all_items |-> all_items,
     filtered |-> filtered]

\* lines 176-180: all_items = fetch_all_pages(url, token)
FiFetchPages ==
    /\ fi.pc = "call"
    /\ \E got \in {FetchAllPages(ListIssues(fi.upstream), fi.out)} :
         fi' = [fi EXCEPT !.pc = IF got.status = "raised" THEN "raised"
                                 ELSE "filter",
                          !.all_items = got.all_items]
    /\ UNCHANGED <<mainVars, rq, fp, ps>>

\* lines 182-200: the for loop over all_items
FiFilter ==
    /\ fi.pc = "filter"
    /\ \E r \in {FilterIssues(fi.all_items, RepoW, WinStart, WinEnd)} :
         fi' = [fi EXCEPT !.pc = IF r.raised THEN "raised" ELSE "done",
                          !.filtered = r.items]
    /\ UNCHANGED <<mainVars, rq, fp, ps>>

NextIssues ==
    \/ FiFetchPages
    \/ FiFilter

InitIssues ==
    /\ MainIdle
    /\ rq = IdleRq
    /\ fp = IdleFp
    /\ ps = IdlePs
    /\ \E S \in SUBSET IssuePool, out \in {<<>>, <<"none">>, <<"raise">>} :
         /\ Cardinality(S) <= MaxIssuePick
         /\ fi = FiState("call", S, out, <<>>, <<>>)

SpecIssues == InitIssues /\ [][NextIssues]_vars

(***************************************************************************)
(* process_hackathon_stats as called on given records.                     *)
(*   ps = [pc, prs, all_reviews, issues, start_dt, end_dt, repositories,   *)
(*         stats]      pc: "call", "returned"                              *)
(* The records reach it from the fetchers, tagged with their repository;   *)
(* a record without the tag counts under "unknown".  Minute 0 is midnight, *)
(* so the window 0 .. 2 * DayMinutes covers three dates.                   *)
(***************************************************************************)
MaxStatPRs == 3
MaxStatReviews == 2
MaxStatIssues == 2

Dependabot == <<"d", "e", "p", "e", "n", "d", "a", "b", "o", "t",
                "[", "b", "o", "t", "]">>
SomeAppBot == <<"s", "o", "m", "e", "-", "a", "p", "p", "-", "b", "o", "t">>
HelperBOT == <<"H", "e", "l", "p", "e", "r", "B", "O", "T">>
CopilotUser == <<"C", "o", "p", "i", "l", "o", "t", "-", "x">>
Dave == <<"d", "a", "v", "e">>
CopilotTitle == <<"U", "s", "e", " ", "C", "o", "p", "i", "l", "o", "t">>

Tagged(rec, path) == [rec EXCEPT !.repository = path]

StatPRs ==
    {Tagged(PR(1, 100, 100, Some(200), Alice, PlainTitle), RepoW),
     Tagged(PR(2, 300, 300, None, Alice, PlainTitle), RepoW),
     Tagged(PR(3, 1500, 1500, Some(1600), Bob, PlainTitle), RepoG),
     Tagged(PR(4, 2000, 2000, Some(5000), Bob, PlainTitle), RepoG),
     Tagged(PR(5, 100, 100, Some(150), Dependabot, PlainTitle), RepoW),
     Tagged(PR(6, 100, 100, Some(150), SomeAppBot, PlainTitle), RepoW),
     Tagged(PR(7, 400, 400, Some(500), Alice, CopilotTitle), RepoW),
     PR(8, 400, 400, Some(500), CopilotUser, PlainTitle),
     Tagged(PR(9, 1450, 1450, Some(1460), HelperBOT, PlainTitle), RepoW)}

StatReviews ==
    {Review(1, Bob, "APPROVED", Some(300)),
     Review(2, Alice, "COMMENTED", Some(1500)),
     Review(3, Bob, "DISMISSED", Some(400)),
     Review(4, Dependabot, "APPROVED", Some(300)),
     Review(5, Dave, "APPROVED", None),
     Review(6, Bob, "APPROVED", Some(9000)),
     Review(7, CopilotUser, "APPROVED", Some(300)),
     Review(8, Dave, "APPROVED", Some(350))}

StatIssues ==
    {Tagged(Issue(1, 100, Some(200), "closed", FALSE), RepoW),
     Tagged(Issue(2, 300, None, "open", FALSE), RepoW),
     Tagged(Issue(3, 1500, Some(1600), "closed", FALSE), RepoG),
     Issue(4, 1500, None, "open", FALSE)}

\* the sequences of at most n distinct elements of S
SeqsOf(S, n) ==
    UNION {{q \in [1..k -> S] : \A i, j \in 1..k : q[i] = q[j] => i = j} :
             k \in 0..n}

PickOf(S, numbers) ==
    [i \in 1..Len(numbers) |-> CHOOSE x \in S : x.number = numbers[i]]

ThreeDays == <<Aware(0), Aware(2 * DayMinutes)>>
WindowEdges == {0, 700, DayMinutes - 1, DayMinutes, 2 * DayMinutes, 4000}

PsState(pc0, prs, all_reviews, issues, window, repositories, stats) ==
    [pc |-> pc0, prs |-> prs, all_reviews |-> all_reviews, issues |-> issues,
     start_dt |-> window[1], end_dt |-> window[2],
     repositories |-> repositories, stats |-> stats]

\* every short stream of pull requests
StatsOfPRs ==
    {PsState("call", prs, revs, <<>>, w, <<RepoW>>, NoStats) :
        prs \in SeqsOf(StatPRs, MaxStatPRs),
        revs \in {<<>>, <<Review(1, Bob, "APPROVED", Some(300)),
                          Review(2, Alice, "COMMENTED", Some(1500)),
                          Review(8, Dave, "APPROVED", Some(350))>>},
        w \in {ThreeDays, <<Aware(100), Aware(1000)>>}}

\* every short stream of reviews
StatsOfReviews ==
    {PsState("call", PickOf(StatPRs, nums), revs, <<>>, ThreeDays, <<RepoW>>,
             NoStats) :
        nums \in {<<>>, <<1>>, <<1, 3, 4>>},
        revs \in SeqsOf(StatReviews, MaxStatReviews)}

\* every short stream of issues, and the shapes of the repository list
StatsOfIssues ==
    {PsState("call", PickOf(StatPRs, nums), <<>>, issues, ThreeDays, repos,
             NoStats) :
        nums \in {<<>>, <<1, 4>>, <<8>>},
        issues \in SeqsOf(StatIssues, MaxStatIssues),
        repos \in {<<>>, <<RepoW>>, <<RepoW, RepoG>>, <<RepoW, RepoW>>}}

\* every window with start <= end over the edges of the days
StatsOfWindows ==
    {PsState("call", PickOf(StatPRs, nums), <<>>, <<>>, <<Aware(a), Aware(b)>>,
             <<RepoW>>, NoStats) :
        nums \in {<<>>, <<1, 3, 4>>},
        a \in WindowEdges, b \in WindowEdges}

\* lines 219-370: the call
CallProcessHackathonStats ==
    /\ ps.pc = "call"
    /\ ps' = [ps EXCEPT !.pc = "returned",
                        !.stats = ProcessHackathonStats(
                            ps.prs, ps.all_reviews, ps.issues,
                            ps.start_dt, ps.end_dt, ps.repositories)]
    /\ UNCHANGED <<mainVars, rq, fp, fi>>

NextStats == CallProcessHackathonStats

InitStats ==
    /\ MainIdle
    /\ rq = IdleRq
    /\ fp = IdleFp
    /\ fi = IdleFi
    /\ ps \in StatsOfPRs \cup StatsOfReviews \cup StatsOfIssues
                \cup {w \in StatsOfWindows : w.start_dt.t <= w.end_dt.t}

SpecStats == InitStats /\ [][NextStats]_vars

(***************************************************************************)
(* Properties of the run loop.                                             *)
(***************************************************************************)
Events == config.hackathons
EventOf(sl) == config.hackathons[sl]         \* the i-th event has slug i
Configured == {Events[i].slug : i \in 1..Len(Events)}
Processed(sl) == last[sl].what \in {"raise", "none", "data"}
CallsFor(sl) == Count(calls, LAMBDA c : c.ev = sl)

\* C1: during a run, an event that has ended and whose snapshot file existed
\* when the run began is not handed to process_hackathon, no upstream request
\* is issued for it, and its snapshot file stays what it was.
C1_EndedWithSnapshotIsSkipped ==
    \A sl \in Configured :
        (runs >= 1 /\ Ended(EventOf(sl), now) /\ Exists(runStart[sl])) =>
            /\ files[sl] = runStart[sl]
            /\ CallsFor(sl) = 0
            /\ ~(last[sl].run = runs /\ Processed(sl))

\* an event that was open in one run, got its snapshot then, and is skipped by
\* the next run, after its end
C1_Witness ==
    \E sl \in Configured :
        /\ last[sl].what = "skipped" /\ last[sl].run = runs
        /\ last[sl].priorRun = runs - 1 /\ runs >= 2
        /\ files[sl].stats.totalPRs > 0

C3_FailureNeverAbortsRun ==
    (runs >= 1 /\ pc \in {"idle", "crashed"}) =>
        /\ summary = runs
        /\ \A sl \in Configured : last[sl].run = runs

\* C4: the statistics an incremental run writes for an open event, its prior
\* snapshot being the one the run before wrote and the upstream data being the
\* same, are those a full-mode run computes.
C4_IncrementalEqualsFull ==
    \A sl \in Configured :
        (/\ last[sl].what = "data" /\ ~last[sl].ended
         /\ ~IsNone(last[sl].since)
         /\ last[sl].run >= 2 /\ last[sl].priorRun = last[sl].run - 1)
          => files[sl].stats = last[sl].full.stats

\* C5: within a run, fetch_org_repos is called at most once per organization.
C5_OrgListedOncePerRun ==
    \A org \in {"acme", "void"} :
        Count(calls, LAMBDA c : c.op = "org" /\ c.arg = org) <= 1

\* C6: the repository list process_hackathon resolves holds every explicit
\* and every listed path, nothing else, and no path twice.
C6_ResolvedIsDeduplicatedUnion ==
    \A sl \in Configured :
        last[sl].what \in {"none", "data"} =>
            /\ Range(last[sl].resolved)
                 = Range(EventOf(sl).repositories) \cup Range(last[sl].org_repos)
            /\ NoDup(last[sl].resolved)

\* C10: whatever the prior snapshot file holds, short of an object with a
\* well-formed lastUpdated, process_hackathon runs in full mode and does not
\* fail on it.
UsableSnapshot(f) ==
    f.json = "object" /\ f.lastUpdated.fmt \in {"utc", "naive"}

SnapshotErrors ==
    {"AttributeError: existing_data.get", "ValueError: lastUpdated",
     "AttributeError: lastUpdated"}

C10_BadSnapshotMeansFullMode ==
    \A sl \in Configured :
        (Processed(sl) /\ ~UsableSnapshot(last[sl].prior)) =>
            /\ IsNone(last[sl].since)
            /\ ~(last[sl].what = "raise" /\ last[sl].err \in SnapshotErrors)

\* the exchanges of the call that were followed by another request
Retried == 1..(Len(rq.log) - 1)

RateLimit(x) == x.kind = "http" /\ x.code \in {429, 403}
OtherFailure(x) ==
    \/ x.kind = "http" /\ x.code \notin {429, 403, 404}
    \/ x.kind \in {"urlerror", "timeout"}

\* C19: one call of make_request issues at most 3 requests and then
\* returns; a 2xx returns its body on that request; a 404 returns None at
\* once, with no retry and no sleep; a 429/403 sleeps, then retries; any
\* other status or transport error sleeps 5 x (attempt number) seconds,
\* then retries, and returns None without a further sleep once the
\* attempts are exhausted
C19_AtMostThreeRequestsThenReturns ==
    /\ Len(rq.log) <= RetryCount
    /\ rq.pc # "raised"
    /\ \A i \in DOMAIN rq.log :
          LET x == rq.log[i] IN
          /\ x.code = 200 =>
                /\ i = Len(rq.log) /\ rq.pc = "returned"
                /\ x.kind = "ok" => rq.result = "json"
                /\ Len(rq.sleeps) = i - 1
          /\ x.code = 404 =>
                /\ i = Len(rq.log) /\ rq.pc = "returned" /\ rq.result = "None"
                /\ Len(rq.sleeps) = i - 1
          /\ RateLimit(x) => Len(rq.sleeps) >= i /\ rq.sleeps[i] > 0
          /\ (OtherFailure(x) /\ i < RetryCount) =>
                Len(rq.sleeps) >= i /\ rq.sleeps[i] = 5 * i
          /\ (OtherFailure(x) /\ i = RetryCount) =>
                /\ rq.pc = "returned" /\ rq.result = "None"
                /\ Len(rq.sleeps) = i - 1
    /\ \A i \in Retried : RateLimit(rq.log[i]) \/ OtherFailure(rq.log[i])

\* C20: when process_hackathon raises or returns None for an event, main
\* writes nothing for it and the snapshot file an earlier run left is
\* unchanged; a snapshot file is written or overwritten only in the step in
\* which process_hackathon returned a complete result for its event
C20_SnapshotWrittenOnlyOnResult ==
    /\ [](\A sl \in Slugs :
            last[sl].what \in {"raise", "none"} =>
                files[sl] = last[sl].prior)
    /\ [][\A sl \in Slugs :
            files'[sl] # files[sl] =>
                /\ last'[sl].what = "data"
                /\ last'[sl].run = runs
                /\ last'[sl].prior = files[sl]
                /\ files'[sl].json = "object"
                /\ files'[sl].lastUpdated = IsoNow(now)
                /\ files'[sl].repositories = last'[sl].resolved
                /\ files'[sl].repositories # <<>>]_vars

\* process_hackathon raised or returned None for an event whose snapshot
\* file an earlier run had written, and the file is what it was
C20_Witness ==
    \E sl \in Configured :
        /\ last[sl].what \in {"raise", "none"}
        /\ last[sl].run = runs
        /\ Exists(last[sl].prior)
        /\ last[sl].prior.json = "object"
        /\ files[sl] = last[sl].prior

\* C22: a repository identifier that does not split into exactly two
\* segments is rejected by process_hackathon: no pull-request, review, issue
\* or metadata request is issued for it, and it is neither in the snapshot's
\* repositories list nor a key of its repoStats
C22_InvalidPathIsRejected ==
    \A sl \in Configured :
        (last[sl].what = "data" /\ last[sl].run = runs) =>
            \A path \in Range(last[sl].resolved) :
                ~ValidPath(path) =>
                    /\ \A i \in DOMAIN calls :
                          (/\ calls[i].ev = sl
                           /\ calls[i].op \in {"pulls", "reviews", "issues",
                                               "meta"}) =>
                              calls[i].arg # path
                    /\ path \notin Range(files[sl].repositories)
                    /\ path \notin DOMAIN files[sl].stats.repoStats

\* C25: the watermark never moves past updates that were not fetched: when
\* the pull-request fetch of a repository failed in the run that wrote the
\* prior snapshot, a later run whose fetches succeed still fetches every
\* window-relevant pull request of that repository updated before the failed
\* run, and so counts it
C25_WatermarkKeepsUnfetchedUpdates ==
    \A sl \in Configured :
        (/\ last[sl].what = "data"
         /\ last[sl].lost = {}
         /\ last[sl].prior.lastUpdated.fmt = "utc") =>
            \A path \in last[sl].priorLost \cap Range(last[sl].resolved) :
                files[sl].stats.repoStats[path].total >=
                    Cardinality({pr \in UpstreamPRs(path) :
                        /\ RelevantPR(pr, DtOf(FromIso(EventOf(sl).startTime)),
                                      DtOf(FromIso(EventOf(sl).endTime)))
                        /\ pr.updated_at < last[sl].prior.lastUpdated.t})

\* the run ended in a process-level failure: sys.exit(1) or an exception
\* that left main
RunFailed == pc \in {"exit1", "crashed"}

\* C18: main exits non-zero, before any upstream request and before any
\* snapshot or summary write, when the configuration is absent or lists no
\* event; and a run ends in a process-level failure, short of the summary
\* write, under these conditions only
C18_OnlyMissingOrEmptyConfigIsFatal ==
    /\ pc = "exit1" =>
          /\ calls = <<>>
          /\ files = runStart
          /\ summary # runs
    /\ (runs > 0 /\ ~(config.present /\ config.hackathons # <<>>)) =>
          pc = "exit1"
    /\ RunFailed => ~(config.present /\ config.hackathons # <<>>)

(***************************************************************************)
(* Properties of fetch_pull_requests.                                      *)
(***************************************************************************)
Delivered == Range(fp.st.all_items)
Retained(pr) == \E kept \in Range(fp.filtered) : kept.number = pr.number
InEventWindow(t) == WinStart.t <= t /\ t <= WinEnd.t
WindowRelevant(pr) ==
    \/ InEventWindow(pr.created_at)
    \/ (pr.merged_at # None /\ InEventWindow(pr.merged_at[1]))

\* C8: with a prior snapshot whose lastUpdated is T, the watermark is T - 5
\* minutes and, of the listing delivered newest update first, exactly the
\* window-relevant pull requests updated at or after T - 5 are retained.
C8_RetainedIffUpdatedSinceWatermark ==
    (fp.pc = "done" /\ fp.prior.lastUpdated.fmt = "utc") =>
        LET T == fp.prior.lastUpdated.t IN
        /\ fp.since = Some(Aware(T - 5))
        /\ \A pr \in Delivered :
              Retained(pr) <=> (WindowRelevant(pr) /\ pr.updated_at >= T - 5)

\* T = 96: the pull request updated at 86 is cut, those updated at 91 and at
\* 97 are kept
C8_Witness ==
    /\ fp.pc = "done" /\ fp.prior.lastUpdated = Utc(96)
    /\ \E a, b, c \in Delivered :
          /\ a.updated_at = 86 /\ ~Retained(a)
          /\ b.updated_at = 91 /\ Retained(b)
          /\ c.updated_at = 97 /\ Retained(c)

\* C9: in incremental mode no page of the listing is requested after a page
\* was received that holds a record updated before the watermark.
C9_NoPageAfterOldRecord ==
    (fp.pc # "call" /\ ~IsNone(fp.since) /\ Val(fp.since).aware) =>
        \A p \in Range(fp.st.requested) : \A q \in 1..(p - 1) :
            \A pr \in Range(PageOf(fp.listing, q)) :
                pr.updated_at >= Val(fp.since).t

\* the records the watermark cuts: in incremental mode, those updated before
\* it (the listing then comes newest update first)
CutByWatermark(pr) == ~IsNone(fp.since) /\ pr.updated_at < Val(fp.since).t

\* a time of the window with its end excluded, and with its end included
InHalfOpenWindow(t) == WinStart.t <= t /\ t < WinEnd.t
InClosedWindow(t) == WinStart.t <= t /\ t <= WinEnd.t

\* the list returned holds, once each and tagged with owner/name, exactly
\* the fetched records not cut by the watermark whose creation time, or
\* merge time when merged, satisfies In
RetainsByWindow(In(_)) ==
    /\ \A pr \in Delivered :
          Retained(pr) <=>
              /\ ~CutByWatermark(pr)
              /\ \/ In(pr.created_at)
                 \/ (pr.merged_at # None /\ In(pr.merged_at[1]))
    /\ \A i \in DOMAIN fp.filtered :
          /\ fp.filtered[i].repository = RepoW
          /\ [fp.filtered[i] EXCEPT !.repository = <<>>] \in Delivered
          /\ \A j \in DOMAIN fp.filtered :
                fp.filtered[i].number = fp.filtered[j].number => i = j

\* C16 as stated: fetch_pull_requests retains a fetched pull request, among
\* those not cut by the watermark, if and only if its creation time, or its
\* merge time when merged, lies in the window [start, end), end excluded;
\* each retained record is tagged with owner/name and nothing else is
\* returned
C16_RetainedIffInHalfOpenWindow ==
    fp.pc = "done" => RetainsByWindow(InHalfOpenWindow)

\* C16, amended: the same with the window [start, end], both ends included
C16_RetainedIffInClosedWindow ==
    fp.pc = "done" => RetainsByWindow(InClosedWindow)

\* a pull request created at the very end of the window is retained, one
\* created before the window is retained for its merge inside it, and one
\* created before the window and not merged is dropped
C16_Witness ==
    /\ fp.pc = "done"
    /\ \E a, b, c \in Delivered :
          /\ a.created_at = WinEnd.t /\ Retained(a)
          /\ b.created_at < WinStart.t /\ b.merged_at # None /\ Retained(b)
          /\ c.created_at < WinStart.t /\ c.merged_at = None /\ ~Retained(c)

\* what the request for page p of the call was answered with
Answer(p) == Respond(fp.listing, fp.out, p)

\* a page after which the listing goes on: a list of exactly PerPage items
FullPage(p) == Answer(p).kind = "json" /\ Len(Answer(p).body) = PerPage

\* C15: fetch_all_pages requests pages 1, 2, 3, ... in order, each once; it
\* requests no page after the first one that is empty, None or shorter than
\* 100 items and stops there; what it returns is the concatenation of the
\* pages received, in the order of the listing
C15_PagesInOrderUntilShortPage ==
    /\ \A i \in DOMAIN fp.st.requested : fp.st.requested[i] = i
    /\ \A i \in DOMAIN fp.st.requested :
          i < Len(fp.st.requested) => FullPage(i)
    /\ fp.st.status = "run" =>
          \A i \in DOMAIN fp.st.requested : FullPage(i)
    /\ fp.st.status = "done" =>
          /\ fp.st.requested # <<>>
          /\ ~FullPage(Len(fp.st.requested))
          /\ Answer(Len(fp.st.requested)).kind # "raise"
          /\ fp.st.all_items =
                Flatten([i \in DOMAIN fp.st.requested |-> Answer(i).body])
          /\ fp.st.all_items = SubSeq(fp.listing, 1, Len(fp.st.all_items))

\* a listing of 150 records came back as a page of 100 and a page of 50
C15_Witness ==
    /\ fp.st.status = "done"
    /\ fp.st.requested = <<1, 2>>
    /\ Len(fp.listing) = MaxBig
    /\ fp.st.all_items = fp.listing

(***************************************************************************)
(* Properties of process_hackathon_stats.                                  *)
(***************************************************************************)
Returned == ps.pc = "returned"

MaxDate == 10

\* the dates that have a minute at or after start and a minute at or before
\* end: no earlier than the start's date, no later than the end's
DatesOfWindow(start_dt, end_dt) ==
    {d \in 0..MaxDate : /\ (d + 1) * DayMinutes > start_dt.t
                         /\ d * DayMinutes <= end_dt.t}

\* C11: for a window with start <= end, whatever the records, dailyActivity
\* has an entry for each calendar date from the start's date to the end's
\* date inclusive and for no other date, each entry holding the two counts
C11_DailyActivityCoversWindow ==
    (Returned /\ ps.start_dt.t <= ps.end_dt.t) =>
        /\ DOMAIN ps.stats.dailyActivity = DatesOfWindow(ps.start_dt, ps.end_dt)
        /\ \A d \in DOMAIN ps.stats.dailyActivity :
              DOMAIN ps.stats.dailyActivity[d] = {"total", "merged"}

\* a three-day window with a date without activity, and a pull request
\* merged on a date after the window
C11_Witness ==
    /\ Returned
    /\ Cardinality(DOMAIN ps.stats.dailyActivity) = 3
    /\ \E d \in DOMAIN ps.stats.dailyActivity :
          ps.stats.dailyActivity[d] = ZeroDay
    /\ \E i \in DOMAIN ps.prs :
          /\ IsMerged(ps.prs[i])
          /\ DateOf(Val(ps.prs[i].merged_at)) \notin DOMAIN ps.stats.dailyActivity

\* the pull requests and the reviews that create or credit a participant
CreditedPR(pr) == ~IsBot(pr.login) /\ ~IsCopilot(pr)

CreditedReview(review) ==
    /\ ~IsBot(review.login)
    /\ ~IsCopilotLogin(review.login)
    /\ review.state # "DISMISSED"
    /\ ~IsNone(review.submitted_at)
    /\ ps.start_dt.t <= Val(review.submitted_at)
    /\ Val(review.submitted_at) <= ps.end_dt.t

\* the logins in the order the scan meets them: pull requests, then reviews
Seen ==
    [i \in DOMAIN SelectSeq(ps.prs, CreditedPR) |->
        SelectSeq(ps.prs, CreditedPR)[i].login]
    \o [i \in DOMAIN SelectSeq(ps.all_reviews, CreditedReview) |->
        SelectSeq(ps.all_reviews, CreditedReview)[i].login]

FirstSeen(seen, username) ==
    CHOOSE i \in DOMAIN seen :
        /\ seen[i] = username
        /\ \A j \in 1..(i - 1) : seen[j] # username

MergedBy(username) ==
    Cardinality({i \in DOMAIN ps.prs :
        /\ ps.prs[i].login = username
        /\ CreditedPR(ps.prs[i])
        /\ IsMerged(ps.prs[i])})

ReviewedBy(username) ==
    Cardinality({i \in DOMAIN ps.all_reviews :
        /\ ps.all_reviews[i].login = username
        /\ CreditedReview(ps.all_reviews[i])})

\* board lists each login once, highest count first, and equal counts in
\* the order of seen
RankedBy(board, field, members, seen) ==
    /\ {board[i].username : i \in DOMAIN board} = members
    /\ Len(board) = Cardinality(members)
    /\ \A i, j \in DOMAIN board :
          i < j =>
            \/ board[i][field] > board[j][field]
            \/ /\ board[i][field] = board[j][field]
               /\ FirstSeen(seen, board[i].username)
                    < FirstSeen(seen, board[j].username)

\* C12: leaderboard holds exactly the participants with mergedCount > 0 and
\* reviewLeaderboard exactly those with reviewCount > 0, each in
\* non-increasing order of its count, equal counts in the order in which the
\* participants were first met while scanning the pull requests, then the
\* reviews
C12_LeaderboardsRankedStably ==
    Returned =>
        \A seen \in {Seen} :
           /\ RankedBy(ps.stats.leaderboard, "mergedCount",
                       {u \in Range(seen) : MergedBy(u) > 0}, seen)
           /\ \A i \in DOMAIN ps.stats.leaderboard :
                 ps.stats.leaderboard[i].mergedCount =
                     MergedBy(ps.stats.leaderboard[i].username)
           /\ RankedBy(ps.stats.reviewLeaderboard, "reviewCount",
                       {u \in Range(seen) : ReviewedBy(u) > 0}, seen)
           /\ \A i \in DOMAIN ps.stats.reviewLeaderboard :
                 ps.stats.reviewLeaderboard[i].reviewCount =
                     ReviewedBy(ps.stats.reviewLeaderboard[i].username)

\* two participants tie on merged pull requests, and the one listed first
\* was met first through an unmerged pull request although the other merged
\* first
C12_Witness ==
    /\ Returned
    /\ Len(ps.stats.leaderboard) = 2
    /\ ps.stats.leaderboard[1].mergedCount = ps.stats.leaderboard[2].mergedCount
    /\ \E i, j, k \in DOMAIN ps.prs :
          /\ i < j /\ j < k
          /\ ps.prs[i].login = ps.stats.leaderboard[1].username
          /\ ~IsMerged(ps.prs[i])
          /\ ps.prs[j].login = ps.stats.leaderboard[2].username
          /\ ps.prs[k].login = ps.stats.leaderboard[1].username

\* the naming patterns of the logins and titles kept off the leaderboards
BotLogin(username) ==
    \/ \E i \in 1..Len(username) :
          i + 4 <= Len(username) /\ SubSeq(username, i, i + 4) = BotTag
    \/ /\ Len(username) >= 3
       /\ Lower(SubSeq(username, Len(username) - 2, Len(username))) = BotSuffix

NamesCopilot(text) ==
    \E i \in 1..Len(text) :
        i + 6 <= Len(text) /\ Lower(SubSeq(text, i, i + 6)) = CopilotWord

Entries ==
    Range(ps.stats.leaderboard) \cup Range(ps.stats.reviewLeaderboard)

\* the pull requests of the input that satisfy a test
PRsWhere(Test(_)) == {i \in DOMAIN ps.prs : Test(ps.prs[i])}

\* C13: a login that contains "[bot]", ends with "bot" in any case or
\* contains "copilot" is in neither leaderboard; a pull request whose title
\* contains "copilot" in any case adds nothing to its author's prCount or
\* mergedCount; totalPRs, mergedPRs and repoStats count every pull request
C13_BotsAndCopilotOffLeaderboards ==
    Returned =>
        /\ \A e \in Entries :
              /\ ~BotLogin(e.username)
              /\ ~NamesCopilot(e.username)
              /\ e.prCount = Cardinality(PRsWhere(LAMBDA pr :
                      pr.login = e.username /\ ~NamesCopilot(pr.title)))
              /\ e.mergedCount = Cardinality(PRsWhere(LAMBDA pr :
                      /\ pr.login = e.username
                      /\ ~NamesCopilot(pr.title)
                      /\ ~IsNone(pr.merged_at)))
        /\ ps.stats.totalPRs = Len(ps.prs)
        /\ ps.stats.mergedPRs =
              Cardinality(PRsWhere(LAMBDA pr : ~IsNone(pr.merged_at)))
        /\ \A i \in DOMAIN ps.prs :
              \A r \in {IF ps.prs[i].repository = <<>> THEN Unknown
                        ELSE ps.prs[i].repository} :
                 /\ r \in DOMAIN ps.stats.repoStats
                 /\ ps.stats.repoStats[r].total = Cardinality(PRsWhere(
                       LAMBDA pr : pr.repository = ps.prs[i].repository))
                 /\ ps.stats.repoStats[r].merged = Cardinality(PRsWhere(
                       LAMBDA pr : /\ pr.repository = ps.prs[i].repository
                                   /\ ~IsNone(pr.merged_at)))

\* a participant on the leaderboard who also merged a pull request titled
\* after Copilot, next to a merged pull request of a login ending in "BOT"
C13_Witness ==
    /\ Returned
    /\ \E e \in Range(ps.stats.leaderboard) :
          /\ e.mergedCount = 1
          /\ \E i \in DOMAIN ps.prs :
                /\ ps.prs[i].login = e.username
                /\ ps.prs[i].title = CopilotTitle
                /\ IsMerged(ps.prs[i])
    /\ \E i \in DOMAIN ps.prs :
          ps.prs[i].login = HelperBOT /\ IsMerged(ps.prs[i])
    /\ ps.stats.totalPRs = 3
    /\ ps.stats.mergedPRs = 3

\* the repository identifiers the records carry
Carried ==
    {ps.prs[i].repository : i \in DOMAIN ps.prs}
      \cup {ps.issues[i].repository : i \in DOMAIN ps.issues}

\* C14: repoStats has an entry for every resolved repository, all-zero when
\* no record carries it, and for every repository identifier carried by a
\* pull request or an issue, resolved or not
C14_RepoStatsCoversResolvedAndCarried ==
    Returned =>
        /\ \A r \in Range(ps.repositories) :
              /\ r \in DOMAIN ps.stats.repoStats
              /\ r \notin Carried =>
                    ps.stats.repoStats[r] =
                        [total |-> 0, merged |-> 0, issues |-> 0,
                         closedIssues |-> 0]
        /\ \A r \in Carried \ {<<>>} : r \in DOMAIN ps.stats.repoStats

\* a resolved repository without activity, and an issue of a repository that
\* was not resolved
C14_Witness ==
    /\ Returned
    /\ ps.repositories = <<RepoW>>
    /\ RepoW \notin Carried
    /\ \E i \in DOMAIN ps.issues : ps.issues[i].repository = RepoG
    /\ DOMAIN ps.stats.repoStats = {RepoW, RepoG}

\* C23: dailyMergedPRs is the merged-only view of dailyActivity: for every
\* date d, dailyMergedPRs[d] (0 when the key is absent) equals
\* dailyActivity[d].merged (0 when the key is absent), so every date key of
\* dailyMergedPRs is a date of the event window
C23_DailyMergedIsViewOfDailyActivity ==
    Returned =>
        /\ \A d \in 0..MaxDate :
              (IF d \in DOMAIN ps.stats.dailyMergedPRs
               THEN ps.stats.dailyMergedPRs[d] ELSE 0)
                = (IF d \in DOMAIN ps.stats.dailyActivity
                   THEN ps.stats.dailyActivity[d].merged ELSE 0)
        /\ DOMAIN ps.stats.dailyMergedPRs \subseteq DOMAIN ps.stats.dailyActivity

\* the sum of a counter over the entries of repoStats whose keys are in keys
RECURSIVE SumOfRepoStats(_, _)
SumOfRepoStats(keys, field) ==
    IF keys = {} THEN 0
    ELSE LET k == CHOOSE x \in keys : TRUE
         IN ps.stats.repoStats[k][field] + SumOfRepoStats(keys \ {k}, field)

\* C24: totalPRs is the number of pull-request records and mergedPRs the
\* number of them with a merge time, totalIssues the number of issue records
\* and closedIssues the number in state "closed"; summed over the keys of
\* repoStats, total, merged, issues and closedIssues give these four totals,
\* and in every repository merged <= total and closedIssues <= issues
C24_CountsAreConserved ==
    Returned =>
        /\ ps.stats.totalPRs = Len(ps.prs)
        /\ ps.stats.mergedPRs =
              Cardinality({i \in DOMAIN ps.prs : ps.prs[i].merged_at # None})
        /\ ps.stats.totalIssues = Len(ps.issues)
        /\ ps.stats.closedIssues =
              Cardinality({i \in DOMAIN ps.issues : ps.issues[i].state = "closed"})
        /\ \A keys \in {DOMAIN ps.stats.repoStats} :
              /\ SumOfRepoStats(keys, "total") = ps.stats.totalPRs
              /\ SumOfRepoStats(keys, "merged") = ps.stats.mergedPRs
              /\ SumOfRepoStats(keys, "issues") = ps.stats.totalIssues
              /\ SumOfRepoStats(keys, "closedIssues") = ps.stats.closedIssues
              /\ \A k \in keys :
                    /\ ps.stats.repoStats[k].merged <= ps.stats.repoStats[k].total
                    /\ ps.stats.repoStats[k].closedIssues
                         <= ps.stats.repoStats[k].issues

\* pull requests and issues spread over a resolved repository, an unresolved
\* one and records without a repository, some issues open
C24_Witness ==
    /\ Returned
    /\ ps.stats.totalPRs >= 1
    /\ ps.stats.mergedPRs >= 1
    /\ ps.stats.totalIssues = 2
    /\ ps.stats.closedIssues = 1
    /\ ps.repositories = <<RepoW>>
    /\ Cardinality(DOMAIN ps.stats.repoStats) = 3

(***************************************************************************)
(* Properties of fetch_issues.                                             *)
(***************************************************************************)
RetainedIssue(it) == \E kept \in Range(fi.filtered) : kept.number = it.number

\* C21: fetch_issues never retains a record that carries the "pull_request"
\* marker; it retains any other record if and only if its creation time, or
\* its close time when it is closed, lies inside the event window; each
\* retained issue is tagged with owner/name, and nothing else is returned
C21_IssuesRetainedIffInWindow ==
    fi.pc = "done" =>
        /\ \A it \in Range(fi.all_items) :
              /\ it.pull_request => ~RetainedIssue(it)
              /\ ~it.pull_request =>
                    (RetainedIssue(it) <=>
                        \/ InClosedWindow(it.created_at)
                        \/ /\ it.closed_at # None
                           /\ InClosedWindow(it.closed_at[1]))
        /\ \A i \in DOMAIN fi.filtered :
              /\ fi.filtered[i].repository = RepoW
              /\ [fi.filtered[i] EXCEPT !.repository = <<>>]
                    \in Range(fi.all_items)
              /\ \A j \in DOMAIN fi.filtered :
                    fi.filtered[i].number = fi.filtered[j].number => i = j

\* an issue created before the window is retained for its close inside it,
\* a pull request closed inside the window is dropped, and so is an issue
\* created and closed outside the window
C21_Witness ==
    /\ fi.pc = "done"
    /\ \E a, b, c \in Range(fi.all_items) :
          /\ ~a.pull_request /\ a.created_at < WinStart.t /\ RetainedIssue(a)
          /\ b.pull_request /\ b.closed_at # None
          /\ InClosedWindow(b.closed_at[1]) /\ ~RetainedIssue(b)
          /\ ~c.pull_request /\ c.closed_at # None /\ ~RetainedIssue(c)

====
